---- MODULE Spec2Model ----
(***************************************************************************)
(* A model of patternmatcher/matching/common.py: the classifier of the     *)
(* operands of a commutative pattern (CommutativePatternsParts), the       *)
(* atomic matchers, the non-commutative matcher and the commutative        *)
(* matcher.  Generators are modelled by the sequence of values they yield  *)
(* together with the exception, if any, that ends the enumeration.         *)
(***************************************************************************)
EXTENDS Integers, Sequences, FiniteSets, Bags, TLC

VARIABLES op, expressions, pattern, subst, syntactic_matcher, parts, factory, result

vars == <<op, expressions, pattern, subst, syntactic_matcher, parts, factory, result>>

(***************************************************************************)
(* Bounds of the model.                                                    *)
(***************************************************************************)
\* the longest list of subjects
MaxSubjects == 3
\* the longest list of operands of a pattern
MaxOperands == 2
\* the longest list of pairs that a syntactic matcher yields
MaxPairs == 2

(***************************************************************************)
(* Expressions.  Every expression is a record of the same shape.           *)
(*   kind        Symbol, Wildcard, Variable or Operation                   *)
(*   name        the name of a Symbol or of a Variable                     *)
(*   type        the class of a Symbol or of an Operation, the symbol_type *)
(*               of a SymbolWildcard ("" for a plain Wildcard)             *)
(*   constraint  the set of atomic constraints in conjunction; {} is None  *)
(*   operands    the operands of an Operation; <<inner>> for a Variable    *)
(***************************************************************************)
Symbol(name, type, constraint) ==
    [kind |-> "Symbol", name |-> name, type |-> type, min_count |-> 0,
     fixed_size |-> FALSE, constraint |-> constraint, operands |-> <<>>]

Wildcard(min_count, fixed_size, symbol_type, constraint) ==
    [kind |-> "Wildcard", name |-> "", type |-> symbol_type, min_count |-> min_count,
     fixed_size |-> fixed_size, constraint |-> constraint, operands |-> <<>>]

Variable(name, expression, constraint) ==
    [kind |-> "Variable", name |-> name, type |-> "", min_count |-> 0,
     fixed_size |-> FALSE, constraint |-> constraint, operands |-> <<expression>>]

Operation(type, operands, constraint) ==
    [kind |-> "Operation", name |-> "", type |-> type, min_count |-> 0,
     fixed_size |-> FALSE, constraint |-> constraint, operands |-> operands]

\* Operation.from_args: a fresh operation of the given class, without constraint
from_args(type, operands) == Operation(type, operands, {})

\* the operation classes of the model: f commutative, g associative,
\* fa associative and commutative, h neither
associative(type) == type \in {"g", "fa"}

commutative(type) == type \in {"f", "fa"}

\* issubclass(cls, base) for the symbol and operation classes of the model:
\* SpecialSymbol is a subclass of Symbol, the operation classes are unrelated
issubclass(cls, base) == cls = base \/ (cls = "SpecialSymbol" /\ base = "Symbol")

RECURSIVE is_constant(_)
is_constant(e) ==
    CASE e.kind = "Symbol" -> TRUE
      [] e.kind = "Operation" -> \A i \in DOMAIN e.operands : is_constant(e.operands[i])
      [] OTHER -> FALSE

RECURSIVE is_syntactic(_)
is_syntactic(e) ==
    CASE e.kind = "Symbol" -> TRUE
      [] e.kind = "Wildcard" -> e.fixed_size
      [] e.kind = "Variable" -> is_syntactic(e.operands[1])
      [] OTHER -> /\ ~associative(e.type)
                  /\ ~commutative(e.type)
                  /\ \A i \in DOMAIN e.operands : is_syntactic(e.operands[i])

\* Expression.head: None ("") for a wildcard and for a variable around one,
\* the class for an operation, the symbol itself for a symbol
RECURSIVE head(_)
head(e) ==
    CASE e.kind = "Wildcard" -> <<"">>
      [] e.kind = "Variable" -> head(e.operands[1])
      [] e.kind = "Symbol" -> <<"Symbol", e.name, e.type>>
      [] OTHER -> <<"Operation", e.type>>

(***************************************************************************)
(* A total order on expressions and on names: the order of sorted(), and   *)
(* the order in which the model walks the keys of a multiset.              *)
(***************************************************************************)
Strings == <<"", "a", "b", "c", "x", "y", "f", "g", "fa", "h", "Symbol", "SpecialSymbol",
             "Wildcard", "Variable", "Operation">>

Ord(s) == CHOOSE i \in DOMAIN Strings : Strings[i] = s

ConstraintOrd(cs) == IF cs = {} THEN 0 ELSE 1 + Cardinality(cs)

ExprKey(e) ==
    <<Ord(e.kind), Ord(e.name), Ord(e.type), e.min_count, IF e.fixed_size THEN 1 ELSE 0,
      ConstraintOrd(e.constraint), Len(e.operands)>>

RECURSIVE TupleLess(_, _, _)
TupleLess(s, t, i) ==
    IF i > Len(s) THEN FALSE
    ELSE IF s[i] # t[i] THEN s[i] < t[i]
    ELSE TupleLess(s, t, i + 1)

RECURSIVE ExprLess(_, _), OperandsLess(_, _, _)
ExprLess(d, e) ==
    IF ExprKey(d) # ExprKey(e) THEN TupleLess(ExprKey(d), ExprKey(e), 1)
    ELSE OperandsLess(d.operands, e.operands, 1)

OperandsLess(s, t, i) ==
    IF i > Len(s) THEN FALSE
    ELSE IF s[i] # t[i] THEN ExprLess(s[i], t[i])
    ELSE OperandsLess(s, t, i + 1)

RECURSIVE SortExprs(_)
SortExprs(S) ==
    IF S = {} THEN <<>>
    ELSE LET m == CHOOSE d \in S : \A e \in S : e = d \/ ExprLess(d, e)
         IN  <<m>> \o SortExprs(S \ {m})

RECURSIVE SortNames(_)
SortNames(S) ==
    IF S = {} THEN <<>>
    ELSE LET m == CHOOSE d \in S : \A e \in S : Ord(d) <= Ord(e)
         IN  <<m>> \o SortNames(S \ {m})

(***************************************************************************)
(* Multisets are bags.                                                     *)
(***************************************************************************)
Count(B, e) == IF e \in DOMAIN B THEN B[e] ELSE 0

Single(e, n) == IF n > 0 THEN [d \in {e} |-> n] ELSE EmptyBag

Scale(B, n) == IF n > 0 THEN [e \in DOMAIN B |-> B[e] * n] ELSE EmptyBag

RECURSIVE Multiset(_)
Multiset(s) == IF s = <<>> THEN EmptyBag ELSE Single(Head(s), 1) (+) Multiset(Tail(s))

RECURSIVE Repeat(_, _)
Repeat(e, n) == IF n = 0 THEN <<>> ELSE <<e>> \o Repeat(e, n - 1)

RECURSIVE ElementsFrom(_, _, _)
ElementsFrom(B, keys, i) ==
    IF i > Len(keys) THEN <<>>
    ELSE Repeat(keys[i], B[keys[i]]) \o ElementsFrom(B, keys, i + 1)

\* the distinct elements, and the elements with their multiplicity, in order
ExprKeys(B) == SortExprs(DOMAIN B)

ExprElements(B) == ElementsFrom(B, ExprKeys(B), 1)

NameKeys(B) == SortNames(DOMAIN B)

(***************************************************************************)
(* Constraints and substitutions.  A substitution maps every name to a     *)
(* value; the value of an unbound name has the tag "none".  The tag of a   *)
(* bound value is the Python type that holds it: a single expression, a    *)
(* tuple or a list.                                                        *)
(***************************************************************************)
VarNames == {"x", "y"}

Unbound == [tag |-> "none", items |-> <<>>]

ExprValue(e) == [tag |-> "expr", items |-> <<e>>]

TupleValue(s) == [tag |-> "tuple", items |-> s]

ListValue(s) == [tag |-> "list", items |-> s]

EmptySubst == [n \in VarNames |-> Unbound]

Bound(s, name) == name \in VarNames /\ s[name].tag # "none"

Bind(s, name, value) == [s EXCEPT ![name] = value]

\* s is a superset of t
Extends(s, t) == \A n \in VarNames : Bound(t, n) => s[n] = t[n]

\* Substitution.union: Conflict when a name is bound to two unequal values
Conflict(s, t) == \E n \in VarNames : Bound(s, n) /\ Bound(t, n) /\ s[n] # t[n]

union(s, t) == [n \in VarNames |-> IF Bound(s, n) THEN s[n] ELSE t[n]]

A == Symbol("a", "Symbol", {})

B == Symbol("b", "Symbol", {})

\* the atomic constraints: x_not_a is lambda s: 'x' in s and s['x'] != a,
\* y_not_empty is lambda s: 'y' in s and len(s['y']) > 0
AtomicConstraint(c, s) ==
    CASE c = "x_not_a" -> Bound(s, "x") /\ s["x"] # ExprValue(A)
      [] c = "y_not_empty" -> Bound(s, "y") /\ s["y"].items # <<>>
      [] OTHER -> TRUE

\* constraint is None or constraint(s)
Accepts(constraint, s) == \A c \in constraint : AtomicConstraint(c, s)

\* MultiConstraint.create
MultiConstraint(c, d) == c \cup d

(***************************************************************************)
(* CommutativePatternsParts.                                               *)
(***************************************************************************)
VarInfo(min_count, constraint) == [min_count |-> min_count, constraint |-> constraint]

NoInfos == [n \in {} |-> VarInfo(0, {})]

NewParts(operation, length) ==
    [err |-> "", operation |-> operation, length |-> length,
     constant |-> EmptyBag, syntactic |-> EmptyBag, rest |-> EmptyBag,
     sequence_variables |-> EmptyBag, sequence_variable_infos |-> NoInfos,
     fixed_variables |-> EmptyBag, fixed_variable_infos |-> NoInfos,
     sequence_variable_min_length |-> 0, fixed_variable_length |-> 0,
     wildcard_min_length |-> 0, wildcard_fixed |-> "None"]

\* the result of _update_var_info: the new infos, or the failed assertion
update_var_info(infos, name, count, constraint) ==
    IF name \notin DOMAIN infos
    THEN [err |-> "", infos |-> (name :> VarInfo(count, constraint)) @@ infos]
    ELSE IF infos[name].min_count # count
    THEN [err |-> "AssertionError", infos |-> infos]
    ELSE IF constraint # {}
    THEN [err |-> "",
          infos |-> [infos EXCEPT ![name] =
                        VarInfo(count, MultiConstraint(infos[name].constraint, constraint))]]
    ELSE [err |-> "", infos |-> infos]

\* a classifier that also files a syntactic operand under rest
classify_operation_both(p, expression) ==
    IF is_syntactic(expression)
    THEN [p EXCEPT !.syntactic = @ (+) Single(expression, 1),
                   !.rest = @ (+) Single(expression, 1)]
    ELSE [p EXCEPT !.rest = @ (+) Single(expression, 1)]

\* the elif chain of the constructor's loop, for an operand that is no wildcard
classify_operation(p, expression) ==
    IF is_syntactic(expression)
    THEN [p EXCEPT !.syntactic = @ (+) Single(expression, 1)]
    ELSE [p EXCEPT !.rest = @ (+) Single(expression, 1)]

\* one turn of the constructor's loop
classify(p, expression) ==
    IF is_constant(expression)
    THEN [p EXCEPT !.constant = @ (+) Single(expression, 1)]
    ELSE IF head(expression) = <<"">>
    THEN IF expression.kind = "Variable"
         THEN LET name == expression.name
                  wc == expression.operands[1]
              IN  IF wc.fixed_size
                  THEN LET u == update_var_info(p.fixed_variable_infos, name,
                                                wc.min_count, expression.constraint)
                       IN  [p EXCEPT !.fixed_variables = @ (+) Single(name, 1),
                                     !.fixed_variable_infos = u.infos,
                                     !.fixed_variable_length = @ + wc.min_count,
                                     !.err = u.err]
                  ELSE LET u == update_var_info(p.sequence_variable_infos, name,
                                                wc.min_count, expression.constraint)
                       IN  [p EXCEPT !.sequence_variables = @ (+) Single(name, 1),
                                     !.sequence_variable_infos = u.infos,
                                     !.sequence_variable_min_length = @ + wc.min_count,
                                     !.err = u.err]
         ELSE [p EXCEPT !.wildcard_min_length = @ + expression.min_count,
                        !.wildcard_fixed =
                            IF @ = "None"
                            THEN (IF expression.fixed_size THEN "True" ELSE "False")
                            ELSE (IF @ = "True" /\ expression.fixed_size
                                  THEN "True" ELSE "False")]
    ELSE classify_operation(p, expression)

RECURSIVE classify_from(_, _, _)
classify_from(p, operands, i) ==
    IF i > Len(operands) \/ p.err # "" THEN p
    ELSE classify_from(classify(p, operands[i]), operands, i + 1)

\* CommutativePatternsParts(operation, *operands)
CommutativePatternsParts(operation, operands) ==
    classify_from(NewParts(operation, Len(operands)), operands, 1)

(***************************************************************************)
(* Generators.  The outcome of a generator is the sequence of the values   *)
(* it yields and the exception that ends it ("" when it returns).          *)
(***************************************************************************)
Nothing == [err |-> "", yields |-> <<>>]

Yield(s) == [err |-> "", yields |-> <<s>>]

Raise(err) == [err |-> err, yields |-> <<>>]

\* the outcomes outs[i], outs[i+1], ... one after the other, up to the first
\* exception; tailerr is the exception that ends the enclosing loop
RECURSIVE MergeFrom(_, _, _)
MergeFrom(outs, i, tailerr) ==
    IF i > Len(outs) THEN Raise(tailerr)
    ELSE IF outs[i].err # "" THEN outs[i]
    ELSE LET r == MergeFrom(outs, i + 1, tailerr)
         IN  [err |-> r.err, yields |-> outs[i].yields \o r.yields]

\* for y in r: yield from F(y)
AndThen(r, F(_)) == MergeFrom([i \in 1..Len(r.yields) |-> F(r.yields[i])], 1, r.err)

\* for y in r: if P(y): yield y
Filter(r, P(_)) == [err |-> r.err, yields |-> SelectSeq(r.yields, P)]

RECURSIVE Flatten(_)
Flatten(ss) == IF Len(ss) = 0 THEN <<>> ELSE ss[1] \o Flatten(Tail(ss))

Min(m, n) == IF m < n THEN m ELSE n

(***************************************************************************)
(* The iterators of the utils module, from their contracts.                *)
(***************************************************************************)
\* every vector of k non-negative integers of sum total, in lexicographic order
RECURSIVE integer_partition_vector_iter(_, _)
integer_partition_vector_iter(total, k) ==
    IF k = 0 THEN (IF total = 0 THEN <<<<>>>> ELSE <<>>)
    ELSE IF k = 1 THEN <<<<total>>>>
    ELSE Flatten([j \in 1..(total + 1) |->
            LET tails == integer_partition_vector_iter(total - (j - 1), k - 1)
            IN  [t \in 1..Len(tails) |-> <<j - 1>> \o tails[t]]])

\* every vector v of sum total with 0 <= v[i] <= max_vector[i]
RECURSIVE fixed_integer_vector_iter(_, _)
fixed_integer_vector_iter(max_vector, total) ==
    IF Len(max_vector) = 0 THEN (IF total = 0 THEN <<<<>>>> ELSE <<>>)
    ELSE Flatten([j \in 1..(Min(max_vector[1], total) + 1) |->
            LET tails == fixed_integer_vector_iter(Tail(max_vector), total - (j - 1))
            IN  [t \in 1..Len(tails) |-> <<j - 1>> \o tails[t]]])

VariableWithCount(name, count, minimum) ==
    [name |-> name, count |-> count, minimum |-> minimum]

\* the ways to hand n copies of one value to the variables from the i-th on,
\* a variable that occurs count times taking count copies at a time
RECURSIVE copies_iter(_, _, _)
copies_iter(variables, i, n) ==
    IF i > Len(variables) THEN (IF n = 0 THEN <<<<>>>> ELSE <<>>)
    ELSE Flatten([j \in 1..((n \div variables[i].count) + 1) |->
            LET tails == copies_iter(variables, i + 1, n - (j - 1) * variables[i].count)
            IN  [t \in 1..Len(tails) |-> <<j - 1>> \o tails[t]]])

RECURSIVE partition_from(_, _, _, _, _)
partition_from(values, keys, i, variables, acc) ==
    IF i > Len(keys)
    THEN IF \A v \in 1..Len(variables) : BagCardinality(acc[v]) >= variables[v].minimum
         THEN <<acc>> ELSE <<>>
    ELSE LET cs == copies_iter(variables, 1, values[keys[i]])
         IN  Flatten([c \in 1..Len(cs) |->
                partition_from(values, keys, i + 1, variables,
                    [v \in 1..Len(variables) |-> acc[v] (+) Single(keys[i], cs[c][v])])])

\* every assignment of a multiset to each variable such that each variable
\* gets at least its minimum and the multisets, counted count times, sum to values
commutative_sequence_variable_partition_iter(values, variables) ==
    partition_from(values, ExprKeys(values), 1, variables,
                   [v \in 1..Len(variables) |-> EmptyBag])

(***************************************************************************)
(* The atomic matchers.                                                    *)
(***************************************************************************)
RECURSIVE match(_, _, _)

match_wildcard(exprs, wildcard, s) ==
    IF wildcard.fixed_size
    THEN IF Len(exprs) = wildcard.min_count
         THEN IF wildcard.type # "" /\ Len(exprs) = 0 THEN Raise("IndexError")
              ELSE IF /\ wildcard.type # ""
                      /\ ~(exprs[1].kind = "Symbol" /\ issubclass(exprs[1].type, wildcard.type))
              THEN Nothing
              ELSE IF Accepts(wildcard.constraint, s) THEN Yield(s) ELSE Nothing
         ELSE Nothing
    ELSE IF Len(exprs) >= wildcard.min_count /\ Accepts(wildcard.constraint, s)
    THEN Yield(s)
    ELSE Nothing

match_symbol_any_name(exprs, symbol, s) ==
    IF /\ Len(exprs) = 1
       /\ exprs[1].kind = "Symbol"
       /\ issubclass(exprs[1].type, symbol.type)
       /\ Accepts(symbol.constraint, s)
    THEN Yield(s)
    ELSE Nothing

\* the Symbol branch of match
match_symbol(exprs, symbol, s) ==
    IF /\ Len(exprs) = 1
       /\ exprs[1].kind = "Symbol"
       /\ issubclass(exprs[1].type, symbol.type)
       /\ exprs[1].name = symbol.name
       /\ Accepts(symbol.constraint, s)
    THEN Yield(s)
    ELSE Nothing

\* the value that match_variable binds to the name
variable_value(exprs, inner) ==
    IF Len(exprs) = 1 /\ (inner.kind # "Wildcard" \/ inner.fixed_size)
    THEN ExprValue(exprs[1])
    ELSE TupleValue(exprs)

match_variable_rebind(exprs, variable, s) ==
    LET inner == variable.operands[1]
        expr == variable_value(exprs, inner)
        r == match(exprs, inner, s)
    IN  Filter([err |-> r.err,
                yields |-> [i \in 1..Len(r.yields) |->
                               Bind(r.yields[i], variable.name, expr)]],
               LAMBDA t : Accepts(variable.constraint, t))

match_variable(exprs, variable, s) ==
    LET inner == variable.operands[1]
        expr == variable_value(exprs, inner)
    IN  IF Bound(s, variable.name)
        THEN IF expr = s[variable.name] /\ Accepts(variable.constraint, s)
             THEN Yield(s) ELSE Nothing
        ELSE LET r == match(exprs, inner, s)
             IN  Filter([err |-> r.err,
                         yields |-> [i \in 1..Len(r.yields) |->
                                        Bind(r.yields[i], variable.name, expr)]],
                        LAMBDA t : Accepts(variable.constraint, t))

(***************************************************************************)
(* The non-commutative matcher.                                            *)
(***************************************************************************)
unwrap(operand) == IF operand.kind = "Variable" THEN operand.operands[1] ELSE operand

RECURSIVE count_seq_vars_from(_, _, _, _)
count_seq_vars_from(operation, i, remaining, sequence_var_count) ==
    IF i > Len(operation.operands)
    THEN [err |-> "", remaining |-> remaining, sequence_var_count |-> sequence_var_count]
    ELSE LET operand == unwrap(operation.operands[i])
             is_wc == operand.kind = "Wildcard"
             left == IF is_wc THEN remaining - operand.min_count ELSE remaining - 1
             seqs == IF is_wc /\ (~operand.fixed_size \/ associative(operation.type))
                     THEN sequence_var_count + 1 ELSE sequence_var_count
         IN  IF left < 0
             THEN [err |-> "ValueError", remaining |-> left, sequence_var_count |-> seqs]
             ELSE count_seq_vars_from(operation, i + 1, left, seqs)

\* _count_seq_vars
count_seq_vars(exprs, operation) == count_seq_vars_from(operation, 1, Len(exprs), 0)

\* expressions[i:j], with Python's clamping of the slice
Slice(s, i, j) == SubSeq(s, Min(i, Len(s)) + 1, Min(j, Len(s)))

\* the associative wrapping of one slot of _build_full_partition
wrap_slot(operand_expressions, wrap_associative, type) ==
    IF wrap_associative > 0 /\ Len(operand_expressions) > wrap_associative
    THEN LET fixed == wrap_associative - 1
         IN  Slice(operand_expressions, 0, fixed)
                \o <<from_args(type, Slice(operand_expressions, fixed,
                                           Len(operand_expressions)))>>
    ELSE operand_expressions

RECURSIVE build_full_partition_from(_, _, _, _, _, _)
build_full_partition_from(sequence_var_partition, exprs, operation, k, i, var_index) ==
    IF k > Len(operation.operands) THEN <<>>
    ELSE LET inner == unwrap(operation.operands[k])
             is_seq == /\ inner.kind = "Wildcard"
                       /\ (~inner.fixed_size \/ associative(operation.type))
             count == IF inner.kind = "Wildcard"
                      THEN IF is_seq
                           THEN inner.min_count + sequence_var_partition[var_index + 1]
                           ELSE inner.min_count
                      ELSE 1
             wrap_associative == IF is_seq /\ inner.fixed_size THEN inner.min_count ELSE 0
             operand_expressions == Slice(exprs, i, i + count)
         IN  <<wrap_slot(operand_expressions, wrap_associative, operation.type)>>
                \o build_full_partition_from(sequence_var_partition, exprs, operation,
                       k + 1, i + count, IF is_seq THEN var_index + 1 ELSE var_index)

\* a walk over the subjects that starts at the second one
build_full_partition_from_one(sequence_var_partition, exprs, operation) ==
    build_full_partition_from(sequence_var_partition, exprs, operation, 1, 1, 0)

\* _build_full_partition
build_full_partition(sequence_var_partition, exprs, operation) ==
    build_full_partition_from(sequence_var_partition, exprs, operation, 1, 0, 0)

\* iterator_chain((subst, ), *factories) over the factories from the k-th on
RECURSIVE match_chain(_, _, _, _)
match_chain(partition, operands, k, s) ==
    IF k > Len(operands) THEN Yield(s)
    ELSE AndThen(match(partition[k], operands[k], s),
                 LAMBDA t : match_chain(partition, operands, k + 1, t))

\* _non_commutative_match
non_commutative_match(exprs, operation, s) ==
    LET c == count_seq_vars(exprs, operation)
    IN  IF c.err # "" THEN Nothing
        ELSE LET vectors == integer_partition_vector_iter(c.remaining, c.sequence_var_count)
             IN  MergeFrom([v \in 1..Len(vectors) |->
                     match_chain(build_full_partition(vectors[v], exprs, operation),
                                 operation.operands, 1, s)], 1, "")

(***************************************************************************)
(* The commutative matcher.  A state of its chain of factories is the      *)
(* multiset of the subjects that remain and the substitution so far.       *)
(***************************************************************************)
State(rem, s) == [rem |-> rem, subst |-> s]

\* _fixed_expr_factory(expression, matcher)(exprs, substitution)
fixed_expr_factory(expression, exprs, substitution) ==
    LET keys == ExprKeys(exprs)
    IN  MergeFrom([k \in 1..Len(keys) |->
            IF head(keys[k]) = head(expression)
            THEN LET r == Filter(match(<<keys[k]>>, expression, substitution),
                                 LAMBDA t : Accepts(expression.constraint, t))
                 IN  [err |-> r.err,
                      yields |-> [i \in 1..Len(r.yields) |->
                                     State(exprs (-) Single(keys[k], 1), r.yields[i])]]
            ELSE Nothing], 1, "")

fixed_var_one_any_count(variable, count, constraint, exprs, substitution) ==
    LET keys == ExprKeys(exprs)
    IN  MergeFrom([k \in 1..Len(keys) |->
            IF exprs[keys[k]] >= 1
            THEN IF variable # ""
                 THEN LET new_substitution == Bind(substitution, variable, ExprValue(keys[k]))
                      IN  IF Accepts(constraint, new_substitution)
                          THEN Yield(State(exprs (-) Single(keys[k], count), new_substitution))
                          ELSE Nothing
                 ELSE Yield(State(exprs (-) Single(keys[k], count), substitution))
            ELSE Nothing], 1, "")

\* the length == 1 branch of _fixed_var_iter_factory, for an unbound variable
fixed_var_one(variable, count, constraint, exprs, substitution) ==
    LET keys == ExprKeys(exprs)
    IN  MergeFrom([k \in 1..Len(keys) |->
            IF exprs[keys[k]] >= count
            THEN IF variable # ""
                 THEN LET new_substitution == Bind(substitution, variable, ExprValue(keys[k]))
                      IN  IF Accepts(constraint, new_substitution)
                          THEN Yield(State(exprs (-) Single(keys[k], count), new_substitution))
                          ELSE Nothing
                 ELSE Yield(State(exprs (-) Single(keys[k], count), substitution))
            ELSE Nothing], 1, "")

RECURSIVE sub_counter_from(_, _, _, _)
sub_counter_from(keys, subset, count, i) ==
    IF i > Len(keys) THEN EmptyBag
    ELSE Single(keys[i], subset[i] * count) (+) sub_counter_from(keys, subset, count, i + 1)

\* the length > 1 branch of _fixed_var_iter_factory, for an unbound variable
fixed_var_many(variable, count, length, constraint, exprs, substitution) ==
    LET exprs_with_counts == ExprKeys(exprs)
        counts == [i \in 1..Len(exprs_with_counts) |-> exprs[exprs_with_counts[i]] \div count]
        subsets == fixed_integer_vector_iter(counts, length)
    IN  MergeFrom([k \in 1..Len(subsets) |->
            LET sub_counter == sub_counter_from(exprs_with_counts, subsets[k], count, 1)
            IN  IF variable # ""
                THEN LET new_substitution ==
                             Bind(substitution, variable, ListValue(ExprElements(sub_counter)))
                     IN  IF Accepts(constraint, new_substitution)
                         THEN Yield(State(exprs (-) sub_counter, new_substitution))
                         ELSE Nothing
                ELSE Yield(State(exprs (-) sub_counter, substitution))], 1, "")

\* _fixed_var_iter_factory(variable, count, length, constraint)(exprs, substitution)
fixed_var_iter_factory(variable, count, length, constraint, exprs, substitution) ==
    IF Bound(substitution, variable)
    THEN LET existing == Scale(Multiset(substitution[variable].items), count)
         IN  IF ~(existing \sqsubseteq exprs) THEN Nothing
             ELSE IF Accepts(constraint, substitution)
             THEN Yield(State(exprs (-) existing, substitution))
             ELSE Nothing
    ELSE IF length = 1
    THEN fixed_var_one(variable, count, constraint, exprs, substitution)
    ELSE fixed_var_many(variable, count, length, constraint, exprs, substitution)

ExprFactory(expression) ==
    [kind |-> "expr", expression |-> expression, variable |-> "", count |-> 0,
     length |-> 0, constraint |-> {}]

VarFactory(variable, count, length, constraint) ==
    [kind |-> "var", expression |-> A, variable |-> variable, count |-> count,
     length |-> length, constraint |-> constraint]

apply_factory(fac, exprs, substitution) ==
    IF fac.kind = "expr"
    THEN fixed_expr_factory(fac.expression, exprs, substitution)
    ELSE fixed_var_iter_factory(fac.variable, fac.count, fac.length,
                                fac.constraint, exprs, substitution)

\* iterator_chain((expr_counter, subst), *factories) over the factories from the k-th on
RECURSIVE factory_chain(_, _, _)
factory_chain(factories, k, state) ==
    IF k > Len(factories) THEN Yield(state)
    ELSE AndThen(apply_factory(factories[k], state.rem, state.subst),
                 LAMBDA st : factory_chain(factories, k + 1, st))

\* the multiset that a fixed variable bound beforehand takes from the subjects
needed_count(value, count, operation) ==
    LET once == IF /\ associative(operation)
                   /\ value.tag = "expr"
                   /\ value.items[1].kind = "Operation"
                   /\ issubclass(value.items[1].type, operation)
                THEN Multiset(value.items[1].operands)
                ELSE Multiset(value.items)
    IN  IF count > 1 THEN Scale(once, count) ELSE once

\* the loop of _matches_from_matching over the fixed variables of the pattern:
\* the subjects that remain and the fixed variables still to bind
RECURSIVE prebound_from(_, _, _, _, _, _)
prebound_from(s, pat, names, i, remaining, fixed_vars) ==
    IF i > Len(names) THEN [ok |-> TRUE, remaining |-> remaining, fixed_vars |-> fixed_vars]
    ELSE IF Bound(s, names[i])
    THEN LET needed == needed_count(s[names[i]], pat.fixed_variables[names[i]], pat.operation)
         IN  IF ~(needed \sqsubseteq remaining)
             THEN [ok |-> FALSE, remaining |-> remaining, fixed_vars |-> fixed_vars]
             ELSE prebound_from(s, pat, names, i + 1, remaining (-) needed,
                      [n \in (DOMAIN fixed_vars) \ {names[i]} |-> fixed_vars[n]])
    ELSE prebound_from(s, pat, names, i + 1, remaining, fixed_vars)

\* _variables_with_counts
variables_with_counts(variables, infos) ==
    LET names == NameKeys(variables)
    IN  [i \in 1..Len(names) |->
            VariableWithCount(names[i], variables[names[i]], infos[names[i]].min_count)]

unnamed_slot(pat) == <<VariableWithCount("", 1, pat.wildcard_min_length)>>

\* the variables handed to the partition iterator
sequence_vars(pat, fixed_vars) ==
    variables_with_counts(pat.sequence_variables, pat.sequence_variable_infos)
      \o (IF associative(pat.operation)
          THEN variables_with_counts(fixed_vars, pat.fixed_variable_infos)
                 \o (IF pat.wildcard_fixed = "True" THEN unnamed_slot(pat) ELSE <<>>)
          ELSE <<>>)
      \o (IF pat.wildcard_fixed = "False" THEN unnamed_slot(pat) ELSE <<>>)

\* MultiConstraint.create(*constraints)
combined_constraint(pat, fixed_vars) ==
    UNION ({pat.sequence_variable_infos[n].constraint : n \in DOMAIN pat.sequence_variables}
           \cup (IF associative(pat.operation)
                 THEN {pat.fixed_variable_infos[n].constraint : n \in DOMAIN fixed_vars}
                 ELSE {}))

\* Substitution((var, sorted(exprs)) for var, exprs in sequence_subst.items());
\* the unnamed variable has no entry
RECURSIVE sorted_subst_from(_, _, _)
sorted_subst_from(variables, assignment, i) ==
    IF i > Len(variables) THEN EmptySubst
    ELSE LET t == sorted_subst_from(variables, assignment, i + 1)
         IN  IF variables[i].name = "" THEN t
             ELSE Bind(t, variables[i].name, ListValue(ExprElements(assignment[i])))

\* the value of a fixed variable of min_count l that the partition iterator served
rewrap(value, l, operation) ==
    IF Len(value.items) > l THEN ExprValue(from_args(operation, value.items))
    ELSE IF l = Len(value.items) /\ l = 1 THEN ExprValue(value.items[1])
    ELSE value

rewrap_all(t, pat, fixed_vars) ==
    IF associative(pat.operation)
    THEN [n \in VarNames |->
            IF n \in DOMAIN fixed_vars
            THEN rewrap(t[n], pat.fixed_variable_infos[n].min_count, pat.operation)
            ELSE t[n]]
    ELSE t

try_union_raise(t, s, constraint) ==
    IF Conflict(t, s) THEN Raise("ValueError")
    ELSE IF Accepts(constraint, union(t, s)) THEN Yield(union(t, s))
    ELSE Nothing

\* try: result = s.union(subst); yield result if the constraint accepts it
\* except ValueError: pass
try_union(t, s, constraint) ==
    IF Conflict(t, s) THEN Nothing
    ELSE IF Accepts(constraint, union(t, s)) THEN Yield(union(t, s))
    ELSE Nothing

\* the body of the loop of _matches_from_matching over the chain's states
sequence_matches(state, pat, fixed_vars) ==
    LET variables == sequence_vars(pat, fixed_vars)
        assignments == commutative_sequence_variable_partition_iter(state.rem, variables)
    IN  MergeFrom([k \in 1..Len(assignments) |->
            try_union(rewrap_all(sorted_subst_from(variables, assignments[k], 1),
                                 pat, fixed_vars),
                      state.subst, combined_constraint(pat, fixed_vars))], 1, "")

needed_length(pat, rest_expr) ==
    BagCardinality(pat.sequence_variables) + BagCardinality(pat.fixed_variables)
        + BagCardinality(rest_expr) + pat.wildcard_min_length

\* the factories of _matches_from_matching
factories_of(pat, rest_expr, fixed_vars) ==
    LET es == ExprElements(rest_expr)
        names == NameKeys(fixed_vars)
    IN  [i \in 1..Len(es) |-> ExprFactory(es[i])]
          \o (IF ~associative(pat.operation)
              THEN [i \in 1..Len(names) |->
                       VarFactory(names[i], fixed_vars[names[i]],
                                  pat.fixed_variable_infos[names[i]].min_count,
                                  pat.fixed_variable_infos[names[i]].constraint)]
                     \o (IF pat.wildcard_fixed = "True"
                         THEN <<VarFactory("", 1, pat.wildcard_min_length, {})>>
                         ELSE <<>>)
              ELSE <<>>)

\* _matches_from_matching
matches_from_matching(s, remaining, pat, include_syntactic) ==
    LET rest_expr == IF include_syntactic THEN pat.rest (+) pat.syntactic ELSE pat.rest
    IN  IF BagCardinality(remaining) < needed_length(pat, rest_expr) THEN Nothing
        ELSE LET pre == prebound_from(s, pat, NameKeys(pat.fixed_variables), 1, remaining,
                                      pat.fixed_variables)
             IN  IF ~pre.ok THEN Nothing
                 ELSE AndThen(factory_chain(factories_of(pat, rest_expr, pre.fixed_vars), 1,
                                            State(pre.remaining, s)),
                              LAMBDA st : sequence_matches(st, pat, pre.fixed_vars))

\* _split_expressions
split_expressions(exprs) ==
    LET syn == {e \in DOMAIN exprs :
                   \/ is_syntactic(e)
                   \/ ~(e.kind = "Operation" /\ (associative(e.type) \/ commutative(e.type)))}
    IN  [constants |-> [e \in (DOMAIN exprs) \ syn |-> exprs[e]],
         syntactics |-> [e \in syn |-> exprs[e]]]

\* no syntactic matcher, and a syntactic matcher with the pairs it yields
NoMatcher == [given |-> FALSE, yields |-> <<>>]

Matcher(yields) == [given |-> TRUE, yields |-> yields]

\* one turn of the loop over the pairs of the syntactic matcher
syntactic_match(pair, substitution, rest, pat) ==
    IF Conflict(pair.subst, substitution) THEN Nothing
    ELSE LET r == matches_from_matching(union(pair.subst, substitution),
                                        pair.rem (+) rest, pat, FALSE)
         IN  IF r.err = "ValueError" THEN [err |-> "", yields |-> r.yields] ELSE r

\* the body of match_commutative_operation after its check of the subjects
match_constant_subjects(operands, pat, substitution, matcher) ==
    LET exprs == Multiset(operands)
    IN  IF ~(pat.constant \sqsubseteq exprs) THEN Nothing
        ELSE LET left == exprs (-) pat.constant
                 split == split_expressions(left)
             IN  IF matcher.given /\ pat.syntactic # EmptyBag
                 THEN IF BagCardinality(pat.syntactic) > BagCardinality(split.syntactics)
                      THEN Nothing
                      ELSE MergeFrom([k \in 1..Len(matcher.yields) |->
                               syntactic_match(matcher.yields[k], substitution,
                                               split.constants, pat)], 1, "")
                 ELSE matches_from_matching(substitution, left, pat, TRUE)

match_commutative_operation_late_check(operands, pat, substitution, matcher) ==
    IF ~(pat.constant \sqsubseteq Multiset(operands)) THEN Nothing
    ELSE IF \E i \in 1..Len(operands) : ~is_constant(operands[i]) THEN Raise("ValueError")
    ELSE match_constant_subjects(operands, pat, substitution, matcher)

match_commutative_operation(operands, pat, substitution, matcher) ==
    IF \E i \in 1..Len(operands) : ~is_constant(operands[i]) THEN Raise("ValueError")
    ELSE match_constant_subjects(operands, pat, substitution, matcher)

match_operation(exprs, operation, s) ==
    IF Len(operation.operands) = 0
    THEN (IF Len(exprs) = 0 THEN Yield(s) ELSE Nothing)
    ELSE IF ~commutative(operation.type)
    THEN non_commutative_match(exprs, operation, s)
    ELSE LET pat == CommutativePatternsParts(operation.type, operation.operands)
         IN  IF pat.err # "" THEN Raise(pat.err)
             ELSE match_commutative_operation(exprs, pat, s, NoMatcher)

match(exprs, pat, s) ==
    CASE pat.kind = "Variable" -> match_variable(exprs, pat, s)
      [] pat.kind = "Wildcard" -> match_wildcard(exprs, pat, s)
      [] pat.kind = "Symbol" -> match_symbol(exprs, pat, s)
      [] OTHER ->
           IF Len(exprs) # 1 \/ ~(exprs[1].kind = "Operation" /\ issubclass(exprs[1].type, pat.type))
           THEN Nothing
           ELSE Filter(match_operation(exprs[1].operands, pat, s),
                       LAMBDA t : Accepts(pat.constraint, t))

(***************************************************************************)
(* The inputs.                                                             *)
(***************************************************************************)
SeqsUpTo(S, n) == UNION {[1..k -> S] : k \in 0..n}

SA == Symbol("a", "SpecialSymbol", {})

AC == Symbol("a", "Symbol", {"x_not_a"})

HA == Operation("h", <<A>>, {})

HB == Operation("h", <<B>>, {})

\* _ and ___, x_ and a variable x of two operands, y___ and y__
Anon == Wildcard(1, TRUE, "", {})

AnonC == Wildcard(1, TRUE, "", {"x_not_a"})

AnonSeq == Wildcard(0, FALSE, "", {})

AnySpecial == Wildcard(1, TRUE, "SpecialSymbol", {})

X1 == Variable("x", Wildcard(1, TRUE, "", {}), {})

X1C == Variable("x", Wildcard(1, TRUE, "", {}), {"x_not_a"})

X2 == Variable("x", Wildcard(2, TRUE, "", {}), {})

XS == Variable("x", Wildcard(0, FALSE, "", {}), {})

Y0 == Variable("y", Wildcard(0, FALSE, "", {}), {})

Y1 == Variable("y", Wildcard(1, FALSE, "", {}), {"y_not_empty"})

HX == Operation("h", <<X1>>, {})

HY == Operation("h", <<Y0>>, {})

Substs ==
    {EmptySubst,
     Bind(EmptySubst, "x", ExprValue(A)),
     Bind(EmptySubst, "x", ExprValue(B)),
     Bind(EmptySubst, "y", ListValue(<<A>>))}

NoFactory == ExprFactory(A)

\* lists of subjects: symbols, and lists that start with one operation
Subjects ==
    SeqsUpTo({A, B}, MaxSubjects)
      \cup {<<HA>> \o t : t \in SeqsUpTo({A, B}, MaxSubjects - 1)}

\* the pairs that the syntactic matcher of the model may yield, in any order
Pairs ==
    {State(EmptyBag, Bind(EmptySubst, "x", ExprValue(A))),
     State(EmptyBag, Bind(EmptySubst, "x", ExprValue(B))),
     State(Single(B, 1), Bind(EmptySubst, "x", ExprValue(B)))}

\* a commutative pattern with a syntactic operand, its subjects and a
\* syntactic matcher
SyntacticPatterns ==
    {Operation(type, <<HX>> \o operands, {}) :
        type \in {"f", "fa"}, operands \in SeqsUpTo({X1, Y0}, MaxOperands - 1)}

SyntacticSubjects == SeqsUpTo({A, HA}, MaxSubjects)

Matchers == {Matcher(yields) : yields \in SeqsUpTo(Pairs, MaxPairs)}

WithSyntacticMatcher ==
    /\ pattern \in SyntacticPatterns
    /\ expressions \in SyntacticSubjects
    /\ syntactic_matcher \in Matchers

(***************************************************************************)
(* Spec: match applied to a pattern, a list of subjects and a              *)
(* substitution; match_commutative_operation applied with a syntactic      *)
(* matcher.                                                                *)
(***************************************************************************)
AtomPatterns == {A, SA, B, AC, Anon, AnonC, AnonSeq, AnySpecial, X1, X1C, X2, Y0, Y1}

OperandPatterns == {A, AnonC, AnonSeq, X1, X1C, X2, Y0, HX}

OperationTypes == {"f", "g", "fa", "h"}

OperandLists == SeqsUpTo(OperandPatterns, MaxOperands)

AtomSubjects == SeqsUpTo({A, B, SA, HA}, MaxSubjects)

Init ==
    /\ op = ""
    /\ parts = NewParts("", 0)
    /\ factory = NoFactory
    /\ result = Nothing
    /\ subst \in Substs
    /\ \/ /\ pattern \in AtomPatterns
          /\ expressions \in AtomSubjects
          /\ syntactic_matcher = NoMatcher
       \/ /\ \E type \in OperationTypes :
               /\ pattern \in {Operation(type, operands, {}) : operands \in OperandLists}
               /\ expressions \in {<<Operation(type, operands, {})>> :
                                     operands \in Subjects}
          /\ syntactic_matcher = NoMatcher
       \/ WithSyntacticMatcher

\* match(expressions, pattern, subst)
Match ==
    /\ op = ""
    /\ ~syntactic_matcher.given
    /\ op' = "match"
    /\ result' = match(expressions, pattern, subst)
    /\ UNCHANGED <<expressions, pattern, subst, syntactic_matcher, parts, factory>>

\* match_commutative_operation(expressions, parts, subst, match, syntactic_matcher),
\* parts being the parts of the pattern
MatchCommutative ==
    /\ op = ""
    /\ syntactic_matcher.given
    /\ CommutativePatternsParts(pattern.type, pattern.operands).err = ""
    /\ op' = "match_commutative_operation"
    /\ parts' = CommutativePatternsParts(pattern.type, pattern.operands)
    /\ result' = match_commutative_operation(expressions, parts', subst, syntactic_matcher)
    /\ UNCHANGED <<expressions, pattern, subst, syntactic_matcher, factory>>

Next == Match \/ MatchCommutative

Spec == Init /\ [][Next]_vars

(***************************************************************************)
(* SpecParts: the construction of the parts of a commutative pattern.      *)
(***************************************************************************)
VA == Variable("x", A, {})

ClassifiedOperands ==
    {A, B, HA, Anon, AnonC, AnonSeq, X1, X1C, X2, XS, Y0, Y1, HX, HY, VA}

ClassifiedPatterns ==
    {Operation(type, operands, {}) :
        type \in {"f", "fa"}, operands \in SeqsUpTo(ClassifiedOperands, MaxOperands + 1)}

InitParts ==
    /\ op = ""
    /\ parts = NewParts("", 0)
    /\ factory = NoFactory
    /\ result = Nothing
    /\ subst = EmptySubst
    /\ expressions = <<>>
    /\ syntactic_matcher = NoMatcher
    /\ pattern \in ClassifiedPatterns

\* CommutativePatternsParts(type(pattern), *pattern.operands)
Construct ==
    /\ op = ""
    /\ op' = "CommutativePatternsParts"
    /\ parts' = CommutativePatternsParts(pattern.type, pattern.operands)
    /\ UNCHANGED <<expressions, pattern, subst, syntactic_matcher, factory, result>>

NextParts == Construct

SpecParts == InitParts /\ [][NextParts]_vars

(***************************************************************************)
(* SpecCommutative: match_commutative_operation applied to the parts of a  *)
(* commutative pattern, with and without a syntactic matcher, also to      *)
(* subjects that are not constant; _fixed_var_iter_factory applied to a    *)
(* fixed variable of the pattern.                                          *)
(***************************************************************************)
CommutativeOperands == {A, AnonC, AnonSeq, X1, X1C, X2, Y0, HX}

CommutativePatterns ==
    {Operation(type, operands, {}) :
        type \in {"f", "fa"}, operands \in SeqsUpTo(CommutativeOperands, MaxOperands)}

\* lists of constant subjects, lists that start with a subject that is not
\* constant, and lists that hold every subject twice, for the variables that
\* occur twice
CommutativeSubjects ==
    Subjects \cup {<<X1>> \o t : t \in SeqsUpTo({A, B}, MaxSubjects - 1)}
             \cup {t \o t : t \in SeqsUpTo({A, B}, MaxSubjects - 1)}

InitCommutative ==
    /\ op = ""
    /\ parts = NewParts("", 0)
    /\ factory = NoFactory
    /\ result = Nothing
    /\ subst \in Substs
    /\ \/ /\ pattern \in CommutativePatterns
          /\ expressions \in CommutativeSubjects
          /\ syntactic_matcher = NoMatcher
       \/ WithSyntacticMatcher

\* match_commutative_operation(expressions, parts, subst, match, syntactic_matcher)
MatchCommutativeOperation ==
    /\ op = ""
    /\ CommutativePatternsParts(pattern.type, pattern.operands).err = ""
    /\ op' = "match_commutative_operation"
    /\ parts' = CommutativePatternsParts(pattern.type, pattern.operands)
    /\ result' = match_commutative_operation(expressions, parts', subst, syntactic_matcher)
    /\ UNCHANGED <<expressions, pattern, subst, syntactic_matcher, factory>>

\* _fixed_var_iter_factory(name, count, min_count, constraint)(Multiset(expressions), subst)
\* for a fixed variable of a pattern that is not associative
FixedVarIterFactory ==
    /\ op = ""
    /\ ~associative(pattern.type)
    /\ ~syntactic_matcher.given
    /\ \A i \in 1..Len(expressions) : is_constant(expressions[i])
    /\ LET pat == CommutativePatternsParts(pattern.type, pattern.operands)
       IN  /\ pat.err = ""
           /\ \E name \in DOMAIN pat.fixed_variables :
                /\ factory' = VarFactory(name, pat.fixed_variables[name],
                                         pat.fixed_variable_infos[name].min_count,
                                         pat.fixed_variable_infos[name].constraint)
                /\ parts' = pat
    /\ op' = "_fixed_var_iter_factory"
    /\ result' = apply_factory(factory', Multiset(expressions), subst)
    /\ UNCHANGED <<expressions, pattern, subst, syntactic_matcher>>

NextCommutative == MatchCommutativeOperation \/ FixedVarIterFactory

SpecCommutative == InitCommutative /\ [][NextCommutative]_vars

(***************************************************************************)
(* SpecPartition: the non-commutative matcher applied to the operands of   *)
(* a subject, and the partitions that it builds, one for every composition *)
(* that it enumerates.                                                     *)
(***************************************************************************)
OrderedPatterns ==
    {Operation(type, operands, {}) :
        type \in {"g", "h"}, operands \in OperandLists \ {<<>>}}

InitPartition ==
    /\ op = ""
    /\ parts = NewParts("", 0)
    /\ factory = NoFactory
    /\ result = Nothing
    /\ syntactic_matcher = NoMatcher
    /\ subst \in Substs
    /\ pattern \in OrderedPatterns
    /\ expressions \in Subjects

\* the partitions of the loop of _non_commutative_match:
\* _build_full_partition(part, expressions, operation) for every part
BuildFullPartition ==
    /\ op = ""
    /\ count_seq_vars(expressions, pattern).err = ""
    /\ op' = "_build_full_partition"
    /\ LET c == count_seq_vars(expressions, pattern)
           vectors == integer_partition_vector_iter(c.remaining, c.sequence_var_count)
       IN  result' = [err |-> "",
                      yields |-> [v \in 1..Len(vectors) |->
                                     build_full_partition(vectors[v], expressions, pattern)]]
    /\ UNCHANGED <<expressions, pattern, subst, syntactic_matcher, parts, factory>>

\* _non_commutative_match(expressions, operation, subst, match)
NonCommutativeMatch ==
    /\ op = ""
    /\ op' = "_non_commutative_match"
    /\ result' = non_commutative_match(expressions, pattern, subst)
    /\ UNCHANGED <<expressions, pattern, subst, syntactic_matcher, parts, factory>>

NextPartition == BuildFullPartition \/ NonCommutativeMatch

SpecPartition == InitPartition /\ [][NextPartition]_vars

(***************************************************************************)
(* The claims about the parts of a commutative pattern, under SpecParts.   *)
(***************************************************************************)
Constructed == op = "CommutativePatternsParts" /\ parts.err = ""

IsNamedWildcard(e) == e.kind = "Variable" /\ e.operands[1].kind = "Wildcard"

Occurrences(operands, e) == Cardinality({i \in DOMAIN operands : operands[i] = e})

NamedOccurrences(operands, name) ==
    Cardinality({i \in DOMAIN operands :
                    IsNamedWildcard(operands[i]) /\ operands[i].name = name})

UnnamedWildcards(operands) ==
    Cardinality({i \in DOMAIN operands : operands[i].kind = "Wildcard"})

Holds(bucket, e) == IF e \in DOMAIN bucket THEN 1 ELSE 0

InExpressionBuckets(e) == Count(parts.constant, e) + Count(parts.syntactic, e) + Count(parts.rest, e)

InVariableBuckets(name) == Count(parts.sequence_variables, name) + Count(parts.fixed_variables, name)

C9_MismatchFails ==
    (/\ op = "CommutativePatternsParts"
     /\ \E i, j \in DOMAIN pattern.operands :
          /\ IsNamedWildcard(pattern.operands[i])
          /\ IsNamedWildcard(pattern.operands[j])
          /\ pattern.operands[i].name = pattern.operands[j].name
          /\ pattern.operands[i].operands[1].min_count
               # pattern.operands[j].operands[1].min_count)
      => parts.err = "AssertionError"

(***************************************************************************)
(* The claims about match, under Spec.                                     *)
(***************************************************************************)
Matched == op \in {"match", "match_commutative_operation"}

RECURSIVE ConstraintsOf(_)
ConstraintsOf(e) ==
    e.constraint \cup UNION {ConstraintsOf(e.operands[i]) : i \in DOMAIN e.operands}

\* C1: every substitution that match yields satisfies every constraint
\* attached anywhere in the pattern: to a symbol, to an operation, to a named
\* variable, bound beforehand or not, and to an unnamed wildcard, under a
\* commutative operation as under any other.
C1_EveryConstraintHolds ==
    op = "match" =>
      \A i \in 1..Len(result.yields) :
        \A c \in ConstraintsOf(pattern) : AtomicConstraint(c, result.yields[i])

\* C2: every substitution that match or match_commutative_operation yields
\* holds every binding of the incoming substitution, with the same value.
C2_YieldsExtendIncoming ==
    Matched => \A i \in 1..Len(result.yields) : Extends(result.yields[i], subst)

\* the binding of a pair of the syntactic matcher was added to a substitution
\* that came in with another binding
C2_Witness ==
    /\ op = "match_commutative_operation"
    /\ syntactic_matcher.given
    /\ Bound(subst, "y")
    /\ \E i \in 1..Len(result.yields) : Bound(result.yields[i], "x")

Without(operands, k) == SubSeq(operands, 1, k - 1) \o SubSeq(operands, k + 1, Len(operands))

\* C3: when the operands of an operation pattern are constants and one
\* sequence variable of min_count 0, and the subject's operands are exactly
\* those constants (in that order, or in any order under a commutative
\* operation), match yields a substitution that binds the variable to the
\* empty sequence.
C3_EmptySequenceBinds ==
    (/\ op = "match"
     /\ subst = EmptySubst
     /\ pattern.kind = "Operation"
     /\ \E k \in DOMAIN pattern.operands :
          /\ pattern.operands[k] = Y0
          /\ \A j \in DOMAIN pattern.operands : j # k => is_constant(pattern.operands[j])
          /\ IF commutative(pattern.type)
             THEN Multiset(Without(pattern.operands, k)) = Multiset(expressions[1].operands)
             ELSE Without(pattern.operands, k) = expressions[1].operands)
      => \E i \in 1..Len(result.yields) :
           Bound(result.yields[i], "y") /\ result.yields[i]["y"].items = <<>>

\* C5: under an associative operation, commutative or not, when the only
\* operand of the pattern is a fixed variable of min_count m >= 1 and the
\* subject has more than m operands, the variable is bound to m values: m - 1
\* operands of the subject as they are, and one fresh operation of the
\* pattern's class that wraps all the other operands.
C5_FirstRawRestWrapped ==
    (/\ op = "match"
     /\ subst = EmptySubst
     /\ pattern.kind = "Operation"
     /\ associative(pattern.type)
     /\ pattern.operands \in {<<X1>>, <<X2>>}
     /\ Len(expressions[1].operands) > pattern.operands[1].operands[1].min_count)
      => \A i \in 1..Len(result.yields) :
           LET m == pattern.operands[1].operands[1].min_count
               value == result.yields[i]["x"].items
               raw == SubSeq(value, 1, m - 1)
           IN  /\ Len(value) = m
               /\ value[m].kind = "Operation"
               /\ value[m].type = pattern.type
               /\ Multiset(raw) (+) Multiset(value[m].operands)
                    = Multiset(expressions[1].operands)
               /\ ~commutative(pattern.type)
                    => raw \o value[m].operands = expressions[1].operands

SymbolCase == op = "match" /\ pattern.kind = "Symbol"

FactoryApplied == op = "_fixed_var_iter_factory"

\* C4: a fixed variable of min_count 1 that occurs count times in a
\* commutative pattern that is not associative, and that is not bound yet, is
\* bound by its factory to an expression that occurs at least count times
\* among the subjects, and exactly count copies of that expression are taken
\* from them; f(x_, x_) yields the one match x -> e on the subjects e, e and no
\* match on two distinct subjects.
C4_FixedVariableTakesCountCopies ==
    /\ (FactoryApplied /\ factory.length = 1 /\ ~Bound(subst, factory.variable))
         => \A i \in 1..Len(result.yields) :
              LET value == result.yields[i].subst[factory.variable]
              IN  /\ value.tag = "expr"
                  /\ Count(Multiset(expressions), value.items[1]) >= factory.count
                  /\ result.yields[i].rem (+) Single(value.items[1], factory.count)
                       = Multiset(expressions)
    /\ (/\ op = "match_commutative_operation"
        /\ pattern = Operation("f", <<X1, X1>>, {})
        /\ subst = EmptySubst
        /\ Len(expressions) = 2
        /\ \A i \in 1..2 : is_constant(expressions[i]))
         => result = IF expressions[1] = expressions[2]
                     THEN Yield(Bind(EmptySubst, "x", ExprValue(expressions[1])))
                     ELSE Nothing

\* the factory of a variable that occurs twice bound it
C4_Witness ==
    /\ FactoryApplied
    /\ factory.length = 1
    /\ factory.count = 2
    /\ ~Bound(subst, factory.variable)
    /\ Len(expressions) > 2
    /\ Len(result.yields) > 0

NotConstant == \E i \in 1..Len(expressions) : ~is_constant(expressions[i])

\* C6: match_commutative_operation raises an error and yields nothing when a
\* subject is not constant, whatever the parts of the pattern and the incoming
\* substitution, also when the constants of the pattern are not among the
\* subjects.
C6_SubjectsMustBeConstant ==
    (op = "match_commutative_operation" /\ NotConstant)
      => result = Raise("ValueError")

\* a subject that is not constant, and a constant of the pattern that is not
\* among the subjects
C6_Witness ==
    /\ op = "match_commutative_operation"
    /\ NotConstant
    /\ ~(parts.constant \sqsubseteq Multiset(expressions))
    /\ result.err = "ValueError"

\* C11: a fixed variable of min_count l > 1 that occurs count >= 1 times in a
\* commutative pattern that is not associative, and that is not bound yet, is
\* bound by its factory to a value of exactly l expressions, and count copies
\* of the expressions of the value are taken from the subjects.
C11_FixedVariableHoldsLengthExpressions ==
    (FactoryApplied /\ factory.length > 1 /\ ~Bound(subst, factory.variable))
      => \A i \in 1..Len(result.yields) :
           LET value == result.yields[i].subst[factory.variable]
           IN  /\ Len(value.items) = factory.length
               /\ result.yields[i].rem (+) Scale(Multiset(value.items), factory.count)
                    = Multiset(expressions)

\* the alternatives of the finisher: for every state that the chain of
\* factories yields, every assignment of the sequence variables, with the
\* substitution of the state and the combined constraint
Alternatives(s, remaining, pat, include_syntactic) ==
    LET rest_expr == IF include_syntactic THEN pat.rest (+) pat.syntactic ELSE pat.rest
        pre == prebound_from(s, pat, NameKeys(pat.fixed_variables), 1, remaining,
                             pat.fixed_variables)
        chain == factory_chain(factories_of(pat, rest_expr, pre.fixed_vars), 1,
                               State(pre.remaining, s))
        variables == sequence_vars(pat, pre.fixed_vars)
    IN  IF BagCardinality(remaining) < needed_length(pat, rest_expr) \/ ~pre.ok THEN <<>>
        ELSE Flatten([k \in 1..Len(chain.yields) |->
                LET assignments == commutative_sequence_variable_partition_iter(
                                       chain.yields[k].rem, variables)
                IN  [j \in 1..Len(assignments) |->
                        [sequence |-> rewrap_all(
                                         sorted_subst_from(variables, assignments[j], 1),
                                         pat, pre.fixed_vars),
                         current |-> chain.yields[k].subst,
                         constraint |-> combined_constraint(pat, pre.fixed_vars)]]])

Conflicts(alt) == Conflict(alt.sequence, alt.current)

Survives(alt) ==
    ~Conflicts(alt) /\ Accepts(alt.constraint, union(alt.sequence, alt.current))

\* the unions of the alternatives that neither conflict nor fail the constraint
Survivors(alts) ==
    LET kept == SelectSeq(alts, Survives)
    IN  [i \in 1..Len(kept) |-> union(kept[i].sequence, kept[i].current)]

\* C7: in the commutative matcher a conflict of a union prunes its branch
\* only.  No error reaches the caller, and the matcher yields, in order, the
\* union of every alternative of the finisher that neither conflicts with the
\* current substitution nor fails the constraint, those after a conflicting
\* alternative included; with a syntactic matcher it does so for every pair
\* whose substitution does not conflict with the incoming one, those after a
\* conflicting pair included.
C7_ConflictPrunesOneBranch ==
    (/\ op = "match_commutative_operation"
     /\ ~NotConstant
     /\ parts.constant \sqsubseteq Multiset(expressions))
      => LET left == Multiset(expressions) (-) parts.constant
             split == split_expressions(left)
             pairs == syntactic_matcher.yields
         IN  IF syntactic_matcher.given /\ parts.syntactic # EmptyBag
             THEN BagCardinality(parts.syntactic) <= BagCardinality(split.syntactics)
                    => result =
                         [err |-> "",
                          yields |-> Flatten([k \in 1..Len(pairs) |->
                             IF Conflict(pairs[k].subst, subst) THEN <<>>
                             ELSE Survivors(Alternatives(union(pairs[k].subst, subst),
                                                         pairs[k].rem (+) split.constants,
                                                         parts, FALSE))])]
             ELSE result = [err |-> "",
                            yields |-> Survivors(Alternatives(subst, left, parts, TRUE))]

\* the substitution of a pair of the syntactic matcher conflicted with the
\* incoming one, and the matches of a later pair were yielded
C7_Witness ==
    /\ op = "match_commutative_operation"
    /\ ~NotConstant
    /\ syntactic_matcher.given
    /\ parts.syntactic # EmptyBag
    /\ result.err = ""
    /\ \E i, j \in 1..Len(syntactic_matcher.yields) :
         /\ i < j
         /\ Conflict(syntactic_matcher.yields[i].subst, subst)
         /\ ~Conflict(syntactic_matcher.yields[j].subst, subst)
         /\ \E k \in 1..Len(result.yields) :
              Extends(result.yields[k], syntactic_matcher.yields[j].subst)

(***************************************************************************)
(* The claims about the non-commutative matcher, under SpecPartition.      *)
(***************************************************************************)
Partitioned == op = "_build_full_partition"

WildcardOf(operand) == IF operand.kind = "Variable" THEN operand.operands[1] ELSE operand

\* the number of subjects that an operand of the pattern takes at least
MinCount(operand) ==
    IF WildcardOf(operand).kind = "Wildcard" THEN WildcardOf(operand).min_count ELSE 1

IsSequenceSlot(operand) ==
    /\ WildcardOf(operand).kind = "Wildcard"
    /\ (~WildcardOf(operand).fixed_size \/ associative(pattern.type))

RECURSIVE FixedCounts(_)
FixedCounts(operands) ==
    IF Len(operands) = 0 THEN 0 ELSE MinCount(Head(operands)) + FixedCounts(Tail(operands))

\* the subjects of a slot before the associative wrapping: a fresh operation
\* of the pattern's class stands for its operands
SlotSubjects(slot) ==
    Flatten([i \in 1..Len(slot) |->
                IF /\ associative(pattern.type)
                   /\ slot[i].kind = "Operation"
                   /\ slot[i].type = pattern.type
                THEN slot[i].operands
                ELSE <<slot[i]>>])

\* C12: every partition that the non-commutative matcher builds has one slot
\* for every operand of the pattern; before the associative wrapping the slots
\* are consecutive slices of the subjects that cover all of them in their
\* order, so that their lengths sum to the number of subjects; a slot holds at
\* least min_count subjects, and exactly min_count (1 for an operand that is
\* no wildcard) when it is no sequence slot; and a pattern without a sequence
\* slot matches only when the number of subjects is the sum of these counts.
C12_SlicesCoverSubjects ==
    /\ Partitioned =>
         \A v \in 1..Len(result.yields) :
           LET partition == result.yields[v]
               slices == [k \in 1..Len(partition) |-> SlotSubjects(partition[k])]
           IN  /\ Len(partition) = Len(pattern.operands)
               /\ Flatten(slices) = expressions
               /\ \A k \in 1..Len(partition) :
                    IF IsSequenceSlot(pattern.operands[k])
                    THEN Len(slices[k]) >= MinCount(pattern.operands[k])
                    ELSE Len(slices[k]) = MinCount(pattern.operands[k])
    /\ (/\ op = "_non_commutative_match"
        /\ \A k \in DOMAIN pattern.operands : ~IsSequenceSlot(pattern.operands[k])
        /\ Len(result.yields) > 0)
         => Len(expressions) = FixedCounts(pattern.operands)

\* two compositions were enumerated, and a slot of one partition was wrapped
C12_Witness ==
    /\ Partitioned
    /\ associative(pattern.type)
    /\ Len(expressions) = MaxSubjects
    /\ Len(result.yields) > 1
    /\ \E v \in 1..Len(result.yields) : \E k \in 1..Len(result.yields[v]) :
         SlotSubjects(result.yields[v][k]) # result.yields[v][k]

====
